---- MODULE Spec2Model ----
(***************************************************************************)
(* Model of app.py: the Streamlit product assistant.                       *)
(*                                                                         *)
(*   load_data                    reads the two CSV files (cached)         *)
(*   get_simple_chatbot_response  tokenizes the query, filters the         *)
(*                                catalog, joins the videos, formats       *)
(*   <module>                     one script run per session event, with   *)
(*                                the chat history in st.session_state     *)
(*                                                                         *)
(* Text is a sequence of one-character strings.  A pandas cell is either   *)
(* text or NaN (an empty CSV cell, a float).                               *)
(***************************************************************************)
EXTENDS Integers, Sequences, FiniteSets, TLC

VARIABLES
  \* one call of get_simple_chatbot_response: its arguments and its result
  arg_products, arg_youtube, arg_query, result, scanned, joined,
  \* the application: the st.cache_data entry, the running load_data bodies
  \* and, per session, the script run and st.session_state
  cache, loads, pc, prompt, read_products,
  products_df, youtube_df, messages, submitted

call_vars == <<arg_products, arg_youtube, arg_query, result, scanned, joined>>

app_vars == <<cache, loads, pc, prompt,
              read_products, products_df, youtube_df, messages, submitted>>

vars == <<call_vars, app_vars>>

(***************************************************************************)
(* Text                                                                    *)
(***************************************************************************)

\* float('nan'): what pd.read_csv puts in an empty cell.
NaN == <<"NaN">>

\* The column is not in the DataFrame at all: Series.get returns its default.
NoColumn == <<"NoColumn">>

\* str(float('nan'))
NanText == <<"n", "a", "n">>

UpperChars == {"A", "B", "C", "N", "O", "P", "R", "E"}

LowerChars == {"a", "b", "c", "e", "i", "l", "n", "o", "p", "r", "t", "x", "y", "z"}

DigitChars == {"1", "2"}

\* \w of the re module: letters, digits and the underscore.
IsWordChar(c) == c \in UpperChars \cup LowerChars \cup DigitChars \cup {"_"}

\* str.isspace, for str.strip().
IsSpace(c) == c = " "

\* str.lower() on one character.
LowerChar(c) ==
  CASE c = "A" -> "a"
    [] c = "B" -> "b"
    [] c = "C" -> "c"
    [] c = "N" -> "n"
    [] c = "O" -> "o"
    [] c = "P" -> "p"
    [] c = "R" -> "r"
    [] c = "E" -> "e"
    [] OTHER -> c

\* str.lower()
Lower(s) == [i \in 1..Len(s) |-> LowerChar(s[i])]

\* str(x) of a cell: text is itself, NaN is "nan".
Str(x) == IF x = NaN THEN NanText ELSE x

\* `sub in s` on Python strings.
Contains(sub, s) ==
  \E i \in 0..(Len(s) - Len(sub)) :
    \A j \in 1..Len(sub) : s[i + j] = sub[j]

\* str.strip(): leading and trailing whitespace removed.
RECURSIVE LStrip(_)
LStrip(s) ==
  IF s # <<>> /\ IsSpace(Head(s)) THEN LStrip(Tail(s)) ELSE s

RECURSIVE RStrip(_)
RStrip(s) ==
  IF s # <<>> /\ IsSpace(s[Len(s)]) THEN RStrip(SubSeq(s, 1, Len(s) - 1)) ELSE s

Strip(s) == RStrip(LStrip(s))

\* re.findall(r'\b\w+\b', s): the maximal runs of word characters, in order.
\* `cur` is the run being read.
RECURSIVE FindWords(_, _)
FindWords(s, cur) ==
  IF s = <<>> THEN (IF cur = <<>> THEN <<>> ELSE <<cur>>)
  ELSE IF IsWordChar(Head(s)) THEN FindWords(Tail(s), Append(cur, Head(s)))
  ELSE (IF cur = <<>> THEN <<>> ELSE <<cur>>) \o FindWords(Tail(s), <<>>)

\* One pattern character of re against one character of the text, under
\* re.IGNORECASE: "." is any character, anything else is itself.
ReCharMatches(p, c) == p = "." \/ LowerChar(p) = LowerChar(c)

\* re.search(pat, s, re.IGNORECASE) is not None, for a pattern made of
\* literals and ".": Series.str.contains(pat, case=False) with its default
\* regex=True.
StrContains(pat, s) ==
  \E i \in 0..(Len(s) - Len(pat)) :
    \A j \in 1..Len(pat) : ReCharMatches(pat[j], s[i + j])

(***************************************************************************)
(* get_simple_chatbot_response                                             *)
(***************************************************************************)

\* The data-unavailable message, the no-match message, a product answer, and
\* an exception leaving the function.
Unavailable == [kind |-> "unavailable", blocks |-> <<>>]

NoMatch == [kind |-> "nomatch", blocks |-> <<>>]

Products(blocks) == [kind |-> "products", blocks |-> blocks]

Raised == [kind |-> "raised", blocks |-> <<>>]

\* DataFrame.empty
Empty(df) == Len(df) = 0

\* [word.lower() for word in re.findall(r'\b\w+\b', user_query) if len(word) > 2]
user_keywords(user_query) ==
  LET words == FindWords(user_query, <<>>)
      kept == SelectSeq(words, LAMBDA w : Len(w) > 2)
  IN [i \in 1..Len(kept) |-> Lower(kept[i])]

\* product.get('RelatedKeywords', default)
GetRelatedKeywords(product, default) ==
  IF product.RelatedKeywords = NoColumn THEN default ELSE product.RelatedKeywords

\* product['ProductName'].lower() raises AttributeError on a float.
NameRaises(product) == product.ProductName = NaN

\* f"{product['ProductName'].lower()} {str(product.get('RelatedKeywords', '')).lower()}".strip()
product_text(product) ==
  Strip(Lower(product.ProductName) \o <<" ">>
        \o Lower(Str(GetRelatedKeywords(product, <<>>))))

\* any(keyword in product_text for keyword in user_keywords)
AnyKeywordIn(keywords, text) ==
  \E k \in 1..Len(keywords) : Contains(keywords[k], text)

\* The loop over products_df.iterrows(): the rows appended so far, how many
\* rows were read, and whether a row raised (the loop ends there).
RECURSIVE FilterRows(_, _, _)
FilterRows(rows, keywords, acc) ==
  IF rows = <<>> THEN acc
  ELSE IF NameRaises(Head(rows))
    THEN [acc EXCEPT !.scanned = @ + 1, !.raised = TRUE]
  ELSE FilterRows(Tail(rows), keywords,
         [acc EXCEPT !.scanned = @ + 1,
                     !.relevant = IF AnyKeywordIn(keywords, product_text(Head(rows)))
                                  THEN Append(@, Head(rows)) ELSE @])

relevant_products(products, keywords) ==
  FilterRows(products, keywords, [relevant |-> <<>>, scanned |-> 0, raised |-> FALSE])

\* youtube_df[youtube_df['ProductID'].astype(str).str.contains(str(product_id), case=False, na=False)]
related_videos(youtube, product_id) ==
  SelectSeq(youtube, LAMBDA v : StrContains(Str(product_id), Str(v.ProductID)))

\* How many of the selected videos a block shows: related_videos.iloc[0].
VideosShown == 1

NoVideoNotice == [notice |-> TRUE, videos |-> <<>>]

video_info(youtube, product_id) ==
  LET rel == related_videos(youtube, product_id)
  IN IF ~Empty(rel)
     THEN [notice |-> FALSE,
           videos |-> SubSeq(rel, 1, IF Len(rel) < VideosShown THEN Len(rel) ELSE VideosShown)]
     ELSE NoVideoNotice

GeneralTraining == <<"g", "e", "n", "e", "r", "a", "l", " ", "t", "r", "a", "i", "n", "i", "n", "g">>

\* One entry of `responses` after the header: the values its f-string
\* interpolates, and product_id, the local the videos were selected with.
ProductBlock(product, youtube) ==
  [product_name |-> product.ProductName,
   product_url |-> product.ProductURL,
   product_id |-> product.ProductID,
   product_keywords |-> Lower(Str(GetRelatedKeywords(product, GeneralTraining))),
   video_info |-> video_info(youtube, product.ProductID)]

\* A slip of line 24: only the catalog is looked at.
DataMissingCatalogOnly(products, youtube) == Empty(products)

\* if products_df.empty or youtube_df.empty
DataMissing(products, youtube) == Empty(products) \/ Empty(youtube)

get_simple_chatbot_response(user_query, products, youtube) ==
  IF DataMissing(products, youtube) THEN Unavailable
  ELSE LET m == relevant_products(products, user_keywords(user_query))
       IN IF m.raised THEN Raised
          ELSE IF m.relevant = <<>> THEN NoMatch
          ELSE Products([i \in 1..Len(m.relevant) |-> ProductBlock(m.relevant[i], youtube)])

\* Rows read by the filter loop in one call.
RowsScanned(user_query, products, youtube) ==
  IF DataMissing(products, youtube) THEN 0
  ELSE relevant_products(products, user_keywords(user_query)).scanned

\* Selections made on youtube_df in one call: one per block.
JoinsDone(user_query, products, youtube) ==
  Len(get_simple_chatbot_response(user_query, products, youtube).blocks)

(***************************************************************************)
(* The inputs the model draws from                                         *)
(***************************************************************************)

\* Rows a catalog snapshot is built from: a complete row, a row with an empty
\* RelatedKeywords cell and an id holding a ".", a row with an empty
\* ProductName cell, a row with an empty ProductID cell.
RowRope ==
  [ProductID |-> <<"p", "1">>, ProductName |-> <<"R", "o", "p", "e">>,
   ProductURL |-> <<"u", "1">>, RelatedKeywords |-> <<"c", "o", "r", "e">>]

RowBall ==
  [ProductID |-> <<"a", ".", "c">>, ProductName |-> <<"B", "a", "l", "l">>,
   ProductURL |-> <<"u", "2">>, RelatedKeywords |-> NaN]

RowNoName ==
  [ProductID |-> <<"p", "2">>, ProductName |-> NaN,
   ProductURL |-> <<"u", "3">>, RelatedKeywords |-> <<"c", "o", "r", "e">>]

RowNoId ==
  [ProductID |-> NaN, ProductName |-> <<"B", "a", "r">>,
   ProductURL |-> <<"u", "4">>, RelatedKeywords |-> <<"r", "o", "p", "e">>]

CatalogRows == {RowRope, RowBall, RowNoName, RowNoId}

\* Rows a media snapshot is built from; the titles tell them apart.
VideoP1 ==
  [ProductID |-> <<"P", "1">>, VideoTitle |-> <<"t", "1">>, VideoURL |-> <<"y", "1">>]

VideoXp1 ==
  [ProductID |-> <<"x", "p", "1">>, VideoTitle |-> <<"t", "2">>, VideoURL |-> <<"y", "2">>]

VideoAbc ==
  [ProductID |-> <<"a", "b", "c">>, VideoTitle |-> <<"t", "3">>, VideoURL |-> <<"y", "3">>]

VideoZz ==
  [ProductID |-> <<"z", "z">>, VideoTitle |-> <<"t", "4">>, VideoURL |-> <<"y", "4">>]

MediaRows == {VideoP1, VideoXp1, VideoAbc, VideoZz}

MaxRows == 2

MaxMedia == 2

SeqsUpTo(S, n) == UNION {[1..k -> S] : k \in 0..n}

\* The same rows read from a file that has no RelatedKeywords column.
WithoutKeywordsColumn(rows) ==
  [i \in 1..Len(rows) |-> [rows[i] EXCEPT !.RelatedKeywords = NoColumn]]

Catalogs ==
  SeqsUpTo(CatalogRows, MaxRows)
    \cup {WithoutKeywordsColumn(c) : c \in SeqsUpTo(CatalogRows, MaxRows)}

MediaTables == SeqsUpTo(MediaRows, MaxMedia)

Queries ==
  { <<>>,
    <<" ">>,
    <<"t", "o">>,
    <<"o", "p", " ", "t", "o">>,
    <<"r", "o", "p", "e">>,
    <<"R", "O", "P", "E">>,
    <<"n", "a", "n">>,
    <<"x", "y", "z">>,
    <<"a", "l", "l">>,
    <<"x", "y", "z", " ", "C", "o", "r", "e", ".", "b", "a", "r">> }

(***************************************************************************)
(* One call of get_simple_chatbot_response on arbitrary snapshots          *)
(***************************************************************************)

NoResult == [kind |-> "none", blocks |-> <<>>]

\* The arguments of the call: any two snapshots of the pools.
CallArgs ==
  /\ arg_products \in Catalogs
  /\ arg_youtube \in MediaTables
  /\ arg_query = <<>>
  /\ result = NoResult
  /\ scanned = 0
  /\ joined = 0

\* response = get_simple_chatbot_response(prompt, products_df, youtube_df)
Answer ==
  \E q \in Queries :
    /\ result = NoResult
    /\ arg_query' = q
    /\ result' = get_simple_chatbot_response(q, arg_products, arg_youtube)
    /\ scanned' = RowsScanned(q, arg_products, arg_youtube)
    /\ joined' = JoinsDone(q, arg_products, arg_youtube)
    /\ UNCHANGED <<arg_products, arg_youtube>>

(***************************************************************************)
(* The application: load_data behind st.cache_data, and the script         *)
(***************************************************************************)

Sessions == {"s1", "s2"}

\* A file on disk: readable with these rows, absent (FileNotFoundError), or
\* present and not loadable (PermissionError, pandas.errors.EmptyDataError,
\* ParserError, UnicodeDecodeError: none is a FileNotFoundError).
FileWith(rows) == [state |-> "ok", rows |-> rows]

FileAbsent == [state |-> "absent", rows |-> <<>>]

FileUnloadable == [state |-> "unloadable", rows |-> <<>>]

ProductFiles ==
  {FileAbsent, FileUnloadable, FileWith(<<RowRope>>), FileWith(<<RowNoName, RowRope>>)}

YoutubeFiles == {FileAbsent, FileUnloadable, FileWith(<<VideoP1>>)}

Prompts == { <<"r", "o", "p", "e">>, <<"x", "y", "z">> }

MaxLoads == 2

MaxPrompts == 2

\* A DataFrame as load_data returns it.  `load` numbers the execution of the
\* load_data body that made it and `except` says it is the pd.DataFrame() of
\* the except branch; neither is program state, they name the value's origin.
Frame(rows, load, except) == [rows |-> rows, load |-> load, except |-> except]

NoFrame == Frame(<<>>, 0, FALSE)

\* return products_df, youtube_df
ReturnRead(products, youtube) == [products |-> products, youtube |-> youtube]

\* A slip of line 15: the except branch keeps what line 10 had read.
ReturnExceptKeepingRead(load, products) ==
  [products |-> products, youtube |-> Frame(<<>>, load, TRUE)]

\* except FileNotFoundError: return pd.DataFrame(), pd.DataFrame()
ReturnExcept(load, products) ==
  [products |-> Frame(<<>>, load, TRUE), youtube |-> Frame(<<>>, load, TRUE)]

NoPrompt == [given |-> FALSE, text |-> <<>>]

Greeting == [role |-> "assistant", text |-> <<>>, answer |-> [kind |-> "greeting", blocks |-> <<>>]]

UserMessage(text) == [role |-> "user", text |-> text, answer |-> NoResult]

AssistantMessage(response) == [role |-> "assistant", text |-> <<>>, answer |-> response]

AppInit ==
  /\ cache = [valid |-> FALSE, value |-> ReturnRead(NoFrame, NoFrame)]
  /\ loads = 0
  /\ pc = [s \in Sessions |-> "idle"]
  /\ prompt = [s \in Sessions |-> NoPrompt]
  /\ read_products = [s \in Sessions |-> NoFrame]
  /\ products_df = [s \in Sessions |-> NoFrame]
  /\ youtube_df = [s \in Sessions |-> NoFrame]
  /\ messages = [s \in Sessions |-> <<>>]
  /\ submitted = [s \in Sessions |-> <<>>]

TotalSubmitted == Len(submitted["s1"]) + Len(submitted["s2"])

\* The script run of a session is over: it ended, or an exception ended it.
Resting(s) == pc[s] \in {"idle", "error17", "error101"}

\* A session event starts a script run: a page load (no prompt) or a prompt
\* submitted in st.chat_input.
Rerun(s) ==
  /\ Resting(s)
  /\ \/ /\ prompt' = [prompt EXCEPT ![s] = NoPrompt]
        /\ UNCHANGED submitted
     \/ \E text \in Prompts :
          /\ TotalSubmitted < MaxPrompts
          /\ prompt' = [prompt EXCEPT ![s] = [given |-> TRUE, text |-> text]]
          /\ submitted' = [submitted EXCEPT ![s] = Append(@, text)]
  /\ pc' = [pc EXCEPT ![s] = "line17"]
  /\ UNCHANGED <<cache, loads, read_products,
                 products_df, youtube_df, messages>>
  /\ UNCHANGED call_vars

\* products_df, youtube_df = load_data(), the value being cached.
CachedLoad(s) ==
  /\ pc[s] = "line17"
  /\ cache.valid
  /\ products_df' = [products_df EXCEPT ![s] = cache.value.products]
  /\ youtube_df' = [youtube_df EXCEPT ![s] = cache.value.youtube]
  /\ pc' = [pc EXCEPT ![s] = "line84"]
  /\ UNCHANGED <<cache, loads, prompt,
                 read_products, messages, submitted>>
  /\ UNCHANGED call_vars

\* load_data() with nothing cached: its body starts.
StartLoad(s) ==
  /\ pc[s] = "line17"
  /\ ~cache.valid
  /\ loads < MaxLoads
  /\ loads' = loads + 1
  /\ read_products' = [read_products EXCEPT ![s] = Frame(<<>>, loads + 1, FALSE)]
  /\ pc' = [pc EXCEPT ![s] = "line10"]
  /\ UNCHANGED <<cache, prompt,
                 products_df, youtube_df, messages, submitted>>
  /\ UNCHANGED call_vars

\* load_data returns `value`: st.cache_data stores it and line 17 unpacks it.
\* The locals of load_data are gone.
Returned(s, value) ==
  /\ cache' = [valid |-> TRUE, value |-> value]
  /\ read_products' = [read_products EXCEPT ![s] = NoFrame]
  /\ products_df' = [products_df EXCEPT ![s] = value.products]
  /\ youtube_df' = [youtube_df EXCEPT ![s] = value.youtube]
  /\ pc' = [pc EXCEPT ![s] = "line84"]

\* An exception that load_data does not catch ends the script run at line 17.
Propagated(s) ==
  /\ pc' = [pc EXCEPT ![s] = "error17"]
  /\ read_products' = [read_products EXCEPT ![s] = NoFrame]
  /\ prompt' = [prompt EXCEPT ![s] = NoPrompt]
  /\ UNCHANGED <<cache, products_df, youtube_df>>

\* products_df = pd.read_csv("RMTS Agent Data - Products.csv"), on the file
\* as it is on disk at that moment.
ReadProducts(s) ==
  /\ pc[s] = "line10"
  /\ \E productsFile \in ProductFiles :
     \/ /\ productsFile.state = "ok"
        /\ read_products' = [read_products EXCEPT ![s] = [@ EXCEPT !.rows = productsFile.rows]]
        /\ pc' = [pc EXCEPT ![s] = "line11"]
        /\ UNCHANGED <<cache, products_df, youtube_df, prompt>>
     \/ /\ productsFile.state = "absent"
        /\ Returned(s, ReturnExcept(read_products[s].load, read_products[s]))
        /\ UNCHANGED prompt
     \/ /\ productsFile.state = "unloadable"
        /\ Propagated(s)
  /\ UNCHANGED <<loads, messages, submitted>>
  /\ UNCHANGED call_vars

\* youtube_df = pd.read_csv("RMTS Agent Data - YouTube Links.csv") and the return
ReadYoutube(s) ==
  /\ pc[s] = "line11"
  /\ \E youtubeFile \in YoutubeFiles :
     \/ /\ youtubeFile.state = "ok"
        /\ Returned(s, ReturnRead(read_products[s],
                                  Frame(youtubeFile.rows, read_products[s].load, FALSE)))
        /\ UNCHANGED prompt
     \/ /\ youtubeFile.state = "absent"
        /\ Returned(s, ReturnExcept(read_products[s].load, read_products[s]))
        /\ UNCHANGED prompt
     \/ /\ youtubeFile.state = "unloadable"
        /\ Propagated(s)
  /\ UNCHANGED <<loads, messages, submitted>>
  /\ UNCHANGED call_vars

\* st.session_state.messages after line 85.
Initialised(history) == IF history = <<>> THEN <<Greeting>> ELSE history

\* Lines 84 to 104 of the script run: the history is created if absent, and a
\* prompt is appended, answered, and its answer appended.  An exception
\* leaving get_simple_chatbot_response at line 101 ends the run before line 104.
\* The run over, its globals and its prompt are gone; st.session_state stays.
Chat(s) ==
  /\ pc[s] = "line84"
  /\ IF ~prompt[s].given
     THEN /\ messages' = [messages EXCEPT ![s] = Initialised(@)]
          /\ pc' = [pc EXCEPT ![s] = "idle"]
     ELSE LET response == get_simple_chatbot_response(
                            prompt[s].text, products_df[s].rows, youtube_df[s].rows)
              asked == Append(Initialised(messages[s]), UserMessage(prompt[s].text))
          IN IF response = Raised
             THEN /\ messages' = [messages EXCEPT ![s] = asked]
                  /\ pc' = [pc EXCEPT ![s] = "error101"]
             ELSE /\ messages' = [messages EXCEPT ![s] = Append(asked, AssistantMessage(response))]
                  /\ pc' = [pc EXCEPT ![s] = "idle"]
  /\ prompt' = [prompt EXCEPT ![s] = NoPrompt]
  /\ products_df' = [products_df EXCEPT ![s] = NoFrame]
  /\ youtube_df' = [youtube_df EXCEPT ![s] = NoFrame]
  /\ UNCHANGED <<cache, loads, read_products, submitted>>
  /\ UNCHANGED call_vars

\* The reload event: st.cache_data.clear(), "Clear cache" in the app menu.
ClearCache ==
  /\ cache.valid
  /\ cache' = [cache EXCEPT !.valid = FALSE]
  /\ UNCHANGED <<loads, pc, prompt, read_products,
                 products_df, youtube_df, messages, submitted>>
  /\ UNCHANGED call_vars

AppIdle ==
  /\ cache = [valid |-> FALSE, value |-> ReturnRead(NoFrame, NoFrame)]
  /\ loads = 0
  /\ pc = [s \in Sessions |-> "idle"]
  /\ prompt = [s \in Sessions |-> NoPrompt]
  /\ read_products = [s \in Sessions |-> NoFrame]
  /\ products_df = [s \in Sessions |-> NoFrame]
  /\ youtube_df = [s \in Sessions |-> NoFrame]
  /\ messages = [s \in Sessions |-> <<>>]
  /\ submitted = [s \in Sessions |-> <<>>]

CallIdle ==
  /\ arg_products = <<>>
  /\ arg_youtube = <<>>
  /\ arg_query = <<>>
  /\ result = NoResult
  /\ scanned = 0
  /\ joined = 0

Init == AppInit /\ CallIdle

Next ==
  \/ \E s \in Sessions : Rerun(s)
  \/ \E s \in Sessions : CachedLoad(s)
  \/ \E s \in Sessions : StartLoad(s)
  \/ \E s \in Sessions : ReadProducts(s)
  \/ \E s \in Sessions : ReadYoutube(s)
  \/ \E s \in Sessions : Chat(s)
  \/ ClearCache

\* The application.
Spec == Init /\ [][Next]_vars

CallNext == Answer /\ UNCHANGED app_vars

CallInit == CallArgs /\ AppIdle

\* One call of get_simple_chatbot_response on snapshots drawn from the pools.
SpecCall == CallInit /\ [][CallNext]_vars

(***************************************************************************)
(* Properties of one call (SpecCall)                                       *)
(***************************************************************************)

\* The call has returned or raised.
Called == result # NoResult

BothSnapshotsNonEmpty == ~Empty(arg_products) /\ ~Empty(arg_youtube)

\* A cell as text, an absent one being the empty text.
TextOrEmpty(x) == IF x \in {NaN, NoColumn} THEN <<>> ELSE x

\* The comparison text as the specification defines it:
\* lowercase(name) + " " + lowercase(keywords, default empty), trimmed.
ComparisonText(product) ==
  Strip(Lower(TextOrEmpty(product.ProductName)) \o <<" ">>
        \o Lower(TextOrEmpty(product.RelatedKeywords)))

\* `sub` occurs in `s`, case ignored.
ContainsIgnoreCase(sub, s) == Contains(Lower(sub), Lower(s))

\* What tells the products of an answer apart.
ProductKey(x) == <<x[1], x[2], x[3]>>

AnswerProducts ==
  [i \in 1..Len(result.blocks) |->
     ProductKey(<<result.blocks[i].product_id, result.blocks[i].product_name,
                  result.blocks[i].product_url>>)]

RowKeys(rows) ==
  [i \in 1..Len(rows) |->
     ProductKey(<<rows[i].ProductID, rows[i].ProductName, rows[i].ProductURL>>)]

\* C1: on non-empty snapshots the products of a returned answer are exactly
\* the catalog rows whose comparison text contains a query keyword, in
\* catalog order, each once.
C1_AnswerIsSubstringFilter ==
  (Called /\ BothSnapshotsNonEmpty /\ result # Raised) =>
    AnswerProducts =
      RowKeys(SelectSeq(arg_products,
                LAMBDA r : AnyKeywordIn(user_keywords(arg_query), ComparisonText(r))))

\* C2: when either snapshot is empty the answer is the data-unavailable
\* message, and no row was read and no join made.
C2_EmptySnapshotGivesUnavailable ==
  (Called /\ (Empty(arg_products) \/ Empty(arg_youtube))) =>
    (result = Unavailable /\ scanned = 0 /\ joined = 0)

\* C2 witness: a call with a catalog row the query matches and no media rows.
C2_Witness ==
  /\ Called
  /\ arg_products = <<RowRope>>
  /\ Empty(arg_youtube)
  /\ arg_query = <<"r", "o", "p", "e">>

\* C3: on non-empty snapshots a query with no keyword gets the no-match
\* message.
C3_NoKeywordGivesNoMatch ==
  (Called /\ BothSnapshotsNonEmpty /\ user_keywords(arg_query) = <<>>) =>
    result = NoMatch

\* The media rows whose ProductID contains the id as a case-insensitive
\* substring, in media order.
VideosContaining(product_id) ==
  SelectSeq(arg_youtube, LAMBDA v : ContainsIgnoreCase(Str(product_id), Str(v.ProductID)))

\* C4 (its last clause): no block lists a media row whose ProductID does not
\* contain the product's id as a case-insensitive substring.
C4_ListedVideosContainId ==
  \A i \in 1..Len(result.blocks) :
    \A j \in 1..Len(result.blocks[i].video_info.videos) :
      ContainsIgnoreCase(Str(result.blocks[i].product_id),
                         Str(result.blocks[i].video_info.videos[j].ProductID))

\* C5: no call raises, whatever cells the catalog rows are missing.
C5_MalformedRowNeverRaises == result # Raised

\* C6: a row whose keywords are absent is in the answer exactly when a query
\* keyword is a substring of its lowercase name.
C6_AbsentKeywordsMatchOnNameOnly ==
  (Called /\ BothSnapshotsNonEmpty /\ result # Raised) =>
    \A i \in 1..Len(arg_products) :
      LET r == arg_products[i]
      IN (r.RelatedKeywords \in {NaN, NoColumn}) =>
           ((\E b \in 1..Len(AnswerProducts) : AnswerProducts[b] = RowKeys(<<r>>)[1])
              <=> AnyKeywordIn(user_keywords(arg_query), Lower(r.ProductName)))

\* C9: a block whose product has no media row containing its id carries the
\* no-video notice.
C9_NoContainingVideoGivesNotice ==
  \A i \in 1..Len(result.blocks) :
    Empty(VideosContaining(result.blocks[i].product_id)) =>
      result.blocks[i].video_info = NoVideoNotice

(***************************************************************************)
(* Properties of the application (Spec)                                    *)
(***************************************************************************)

\* C7: no failure to load a file leaves load_data as an exception.
C7_LoadFailureNeverPropagates == \A s \in Sessions : pc[s] # "error17"

\* C8: the two snapshots a script run answers with were made by one
\* execution of load_data, and either both or neither is the empty frame of
\* its except branch.
C8_QueryUsesOnePair ==
  \A s \in Sessions :
    pc[s] = "line84" =>
      /\ products_df[s].load = youtube_df[s].load
      /\ products_df[s].load >= 1
      /\ products_df[s].except = youtube_df[s].except

\* C8 witness: two script runs about to answer a prompt, one holding the pair
\* of a load that read both files, the other the pair of a later load that
\* failed.
C8_Witness ==
  /\ pc["s1"] = "line84" /\ pc["s2"] = "line84"
  /\ prompt["s1"].given /\ prompt["s2"].given
  /\ products_df["s1"].load = 1 /\ ~products_df["s1"].except
  /\ ~Empty(products_df["s1"].rows) /\ ~Empty(youtube_df["s1"].rows)
  /\ products_df["s2"].load = 2 /\ youtube_df["s2"].except

\* The history is the greeting followed by one (user, assistant) pair per
\* prompt, in the order of the prompts.
IsGreetingAndPairs(history, prompts) ==
  /\ Len(history) = 1 + 2 * Len(prompts)
  /\ history[1] = Greeting
  /\ \A i \in 1..Len(prompts) :
       /\ history[2 * i] = UserMessage(prompts[i])
       /\ history[2 * i + 1].role = "assistant"
       /\ history[2 * i + 1].answer.kind \in {"unavailable", "nomatch", "products"}

\* C10: once a script run is over, a history that exists is the greeting
\* followed by one (user, assistant) pair per submitted prompt.
C10_HistoryIsGreetingAndPairs ==
  \A s \in Sessions :
    (Resting(s) /\ messages[s] # <<>>) => IsGreetingAndPairs(messages[s], submitted[s])

====
